---- MODULE Spec2Model ----
(***************************************************************************)
(* Model of BtgFromZip/fromzip.py: the FromZip engine (construction with   *)
(* password normalisation and manifest resolution, the three read views    *)
(* names(), infos(), files()) driven by a caller shaped like __main__.     *)
(*                                                                         *)
(* Strings are sequences of one-character strings, so that lower(),        *)
(* startswith(), `in`, endswith(), re.search() and join() are computed.    *)
(* JSON objects are records; `'k' in obj` is "k" \in DOMAIN obj.           *)
(***************************************************************************)
EXTENDS Integers, Sequences, FiniteSets, TLC

VARIABLES
    zip,            \* input: the archive's infolist, a sequence of [filename, key]
    manifest,       \* input: [kind, j]: manifest.json absent / unparseable / parsed to j
    args,           \* input: [type, pattern, match_case, passwords] given to FromZip(...)
    pc,             \* the caller's position
    self,           \* the engine's fields: match_type, pattern, match_case, passwords
    file_list,      \* self.file_list: an insertion-ordered dict, a sequence of [k, v]
    zip_file,       \* the archive handle: "unopened", "open" or "closed"
    error,          \* the exception raised, "none" when there is none
    namesOut,       \* what names() yielded
    infosOut,       \* the filenames of the records infos() yielded
    filesOut,       \* the filenames of the streams files() yielded
    attempts,       \* every zip_file.open(zip_info, pwd) made by files(): [name, pwd, ok]
    gen             \* the files() generator: [state, pos]

vars == <<zip, manifest, args, pc, self, file_list, zip_file, error,
          namesOut, infosOut, filesOut, attempts, gen>>

\* ------------------------------------------------------------------ bounds
MaxEntries == 2     \* entries of the archive besides manifest.json
MaxPasswords == 2   \* length of the password list the caller supplies
MaxMeta == 3        \* metadata entries of one manifest result

\* ------------------------------------------------------------------ strings
Range(s) == {s[i] : i \in 1..Len(s)}

\* Python's None, for a string-valued variable and for a password candidate
None == <<"None">>
NoPassword == "None"

LowerChar(c) == IF c = "A" THEN "a" ELSE IF c = "B" THEN "b" ELSE c
lower(s) == [i \in 1..Len(s) |-> LowerChar(s[i])]

startswith(item, p) == Len(p) <= Len(item) /\ SubSeq(item, 1, Len(p)) = p
endswith(item, p) ==
    Len(p) <= Len(item) /\ SubSeq(item, Len(item) - Len(p) + 1, Len(item)) = p
OccursIn(p, item) ==
    \E k \in 0..(Len(item) - Len(p)) : SubSeq(item, k + 1, k + Len(p)) = p
\* re.search for patterns made of literal characters and the wildcard "."
search(p, item) ==
    \E k \in 0..(Len(item) - Len(p)) :
        \A i \in 1..Len(p) : p[i] = "." \/ p[i] = item[k + i]
join(sep, a, b) == a \o <<sep>> \o b

\* ------------------------------------------------------------------ constants
MatchType == {"starts_with", "contains", "ends_with", "regex"}
ManifestName == <<"m", "a", "n", "i", "f", "e", "s", "t", ".", "j", "s", "o", "n">>
AcceptedGenerator == "multifile-acquisition-api"
FileNameKey == "mandiant/mir/agent/FileName"
FilePathKey == "mandiant/mir/agent/FilePath"

NoError == [msg |-> "none", index |-> -1]
Raised(m) == [msg |-> m, index |-> -1]
RaisedAt(m, i) == [msg |-> m, index |-> i]

\* ------------------------------------------------------------------ matchers
Fold(s, item) == IF ~s.match_case THEN lower(item) ELSE item

starts_with(s, item) == startswith(Fold(s, item), s.pattern)
contains(s, item) == OccursIn(s.pattern, Fold(s, item))
ends_with(s, item) == endswith(Fold(s, item), s.pattern)
regex(s, item) == search(s.pattern, Fold(s, item))

\* self.matcher = getattr(self, match_type)
matcher(s, item) ==
    CASE s.match_type = "starts_with" -> starts_with(s, item)
      [] s.match_type = "contains" -> contains(s, item)
      [] s.match_type = "ends_with" -> ends_with(s, item)
      [] s.match_type = "regex" -> regex(s, item)

\* ------------------------------------------------------------------ dict
Keys(d) == {d[i].k : i \in 1..Len(d)}
Get(d, key) == (CHOOSE i \in 1..Len(d) : d[i].k = key)
\* d[key] = value: a new key goes last, an existing key keeps its place
DictSet(d, key, value) ==
    IF key \in Keys(d)
    THEN [i \in 1..Len(d) |-> IF d[i].k = key THEN [k |-> key, v |-> value] ELSE d[i]]
    ELSE Append(d, [k |-> key, v |-> value])

\* ------------------------------------------------------------------ archive
\* ZipInfo.is_dir(): the name ends with a slash
is_dir(zip_info) == endswith(zip_info.filename, <<"/">>)
namelist(z) == {z[i].filename : i \in 1..Len(z)}
\* zip_file.open(zip_info, pwd=pwd): an unencrypted entry opens whatever pwd is, an
\* encrypted one opens with its own password and raises RuntimeError otherwise
ZipOpen(zip_info, pwd) == zip_info.key = NoPassword \/ pwd = zip_info.key

\* ------------------------------------------------------------------ __init__
NormalizePasswords(p) ==
    IF ~p.given THEN <<NoPassword>>
    ELSE IF NoPassword \notin Range(p.list) THEN <<NoPassword>> \o p.list
    ELSE p.list

\* ScanMeta with the matcher asked about the payload's raw name
ScanMeta_RawName(s, payload, st, meta) ==
    IF "name" \in DOMAIN meta /\ "value" \in DOMAIN meta
    THEN LET filename == IF meta.name = FileNameKey /\ matcher(s, payload)
                         THEN meta.value ELSE st.filename
             filepath == IF meta.name = FilePathKey THEN meta.value ELSE st.filepath
         IN [filename |-> filename,
             filepath |-> filepath,
             fl |-> IF filename # None /\ filepath # None
                    THEN IF "\\" \in Range(filepath)
                         THEN DictSet(st.fl, payload, join("\\", filepath, filename))
                         ELSE DictSet(st.fl, payload, join("/", filepath, filename))
                    ELSE st.fl]
    ELSE st

\* ScanMeta with a FileName that does not match forgetting the one that did
ScanMeta_LastSeen(s, payload, st, meta) ==
    IF "name" \in DOMAIN meta /\ "value" \in DOMAIN meta
    THEN LET filename == IF meta.name = FileNameKey
                         THEN IF matcher(s, meta.value) THEN meta.value ELSE None
                         ELSE st.filename
             filepath == IF meta.name = FilePathKey THEN meta.value ELSE st.filepath
         IN [filename |-> filename,
             filepath |-> filepath,
             fl |-> IF filename # None /\ filepath # None
                    THEN IF "\\" \in Range(filepath)
                         THEN DictSet(st.fl, payload, join("\\", filepath, filename))
                         ELSE DictSet(st.fl, payload, join("/", filepath, filename))
                    ELSE st.fl]
    ELSE st

\* one metadata entry of a result; st = [filename, filepath, fl]
ScanMeta(s, payload, st, meta) ==
    IF "name" \in DOMAIN meta /\ "value" \in DOMAIN meta
    THEN LET filename == IF meta.name = FileNameKey /\ matcher(s, meta.value)
                         THEN meta.value ELSE st.filename
             filepath == IF meta.name = FilePathKey THEN meta.value ELSE st.filepath
         IN [filename |-> filename,
             filepath |-> filepath,
             fl |-> IF filename # None /\ filepath # None
                    THEN IF "\\" \in Range(filepath)
                         THEN DictSet(st.fl, payload, join("\\", filepath, filename))
                         ELSE DictSet(st.fl, payload, join("/", filepath, filename))
                    ELSE st.fl]
    ELSE st

RECURSIVE ScanMetadata(_, _, _, _, _)
ScanMetadata(s, payload, metadata, n, st) ==
    IF n > Len(metadata) THEN st
    ELSE ScanMetadata(s, payload, metadata, n + 1, ScanMeta(s, payload, st, metadata[n]))

\* one result of an accepted audit, at (0-based) index i; gives [err, fl]
ScanResult(s, fl, result, i) ==
    IF "payload" \notin DOMAIN result
    THEN [err |-> RaisedAt("payload missing from audit result", i), fl |-> fl]
    ELSE IF "metadata" \notin DOMAIN result
    THEN [err |-> RaisedAt("metadata missing from audit result", i), fl |-> fl]
    ELSE [err |-> NoError,
          fl |-> ScanMetadata(s, result.payload, result.metadata, 1,
                              [filename |-> None, filepath |-> None, fl |-> fl]).fl]

RECURSIVE ScanResults(_, _, _, _)
ScanResults(s, fl, results, n) ==
    IF n > Len(results) THEN [err |-> NoError, fl |-> fl]
    ELSE LET r == ScanResult(s, fl, results[n], n - 1)
         IN IF r.err # NoError THEN r ELSE ScanResults(s, r.fl, results, n + 1)

\* ScanAudit with an accepted audit that lacks results read as one with none
ScanAudit_ResultsOptional(s, fl, audit) ==
    IF "generator" \notin DOMAIN audit
    THEN [err |-> Raised("generator missing from audit"), fl |-> fl]
    ELSE IF audit.generator = AcceptedGenerator /\ "results" \in DOMAIN audit
    THEN ScanResults(s, fl, audit.results, 1)
    ELSE [err |-> NoError, fl |-> fl]

ScanAudit(s, fl, audit) ==
    IF "generator" \notin DOMAIN audit
    THEN [err |-> Raised("generator missing from audit"), fl |-> fl]
    ELSE IF audit.generator = AcceptedGenerator
    THEN IF "results" \notin DOMAIN audit
         THEN [err |-> Raised("results missing from audit"), fl |-> fl]
         ELSE ScanResults(s, fl, audit.results, 1)
    ELSE [err |-> NoError, fl |-> fl]

RECURSIVE ScanAudits(_, _, _, _)
ScanAudits(s, fl, audits, n) ==
    IF n > Len(audits) THEN [err |-> NoError, fl |-> fl]
    ELSE LET r == ScanAudit(s, fl, audits[n])
         IN IF r.err # NoError THEN r ELSE ScanAudits(s, r.fl, audits, n + 1)

\* the manifest branch of __init__; m.kind = "unparseable": json.load raised, the bare
\* except swallowed it and j was never bound when line 43 reads it
ScanManifest(s, m) ==
    IF m.kind = "unparseable"
    THEN [err |-> Raised("UnboundLocalError"), fl |-> <<>>, valid_manifest |-> FALSE]
    ELSE IF "audits" \notin DOMAIN m.j
    THEN [err |-> Raised("audits missing from FireEye manifest"), fl |-> <<>>,
          valid_manifest |-> TRUE]
    ELSE LET r == ScanAudits(s, <<>>, m.j.audits, 1)
         IN [err |-> r.err, fl |-> r.fl, valid_manifest |-> TRUE]

\* the fallback branch: every non-directory entry whose own name matches
RECURSIVE ScanInfolist(_, _, _, _)
ScanInfolist(s, fl, z, n) ==
    IF n > Len(z) THEN fl
    ELSE ScanInfolist(s,
                      IF ~is_dir(z[n]) /\ matcher(s, z[n].filename)
                      THEN DictSet(fl, z[n].filename, z[n].filename) ELSE fl,
                      z, n + 1)

NoSelf == [match_type |-> "", pattern |-> <<>>, match_case |-> FALSE, passwords |-> <<>>]

NewSelf(a) ==
    [match_type |-> a.type,
     pattern |-> IF a.match_case THEN a.pattern ELSE lower(a.pattern),
     match_case |-> a.match_case,
     passwords |-> NormalizePasswords(a.passwords)]

\* FromZip(zip_path, match_type, pattern, match_case, passwords)
Construct ==
    /\ pc = "start"
    /\ IF args.type \notin MatchType
       THEN /\ error' = Raised("Invalid MatchType")
            /\ pc' = "raised"
            /\ UNCHANGED <<self, file_list, zip_file>>
       ELSE LET s == NewSelf(args)
                r == IF ManifestName \in namelist(zip)
                     THEN ScanManifest(s, manifest)
                     ELSE [err |-> NoError, fl |-> <<>>, valid_manifest |-> FALSE]
            IN /\ zip_file' = "open"
               /\ IF r.err # NoError
                  THEN /\ error' = r.err
                       /\ pc' = "raised"
                       /\ UNCHANGED <<self, file_list>>
                  ELSE /\ self' = s
                       /\ file_list' = IF ~r.valid_manifest
                                       THEN ScanInfolist(s, r.fl, zip, 1) ELSE r.fl
                       /\ pc' = "constructed"
                       /\ UNCHANGED error
    /\ UNCHANGED <<zip, manifest, args, namesOut, infosOut, filesOut, attempts, gen>>

\* with FromZip(...) as fz:
Enter ==
    /\ pc = "constructed"
    /\ pc' = "names"
    /\ UNCHANGED <<zip, manifest, args, self, file_list, zip_file, error,
                   namesOut, infosOut, filesOut, attempts, gen>>

\* for e in fz.names(): the keys of file_list, in insertion order
names(fl) == [i \in 1..Len(fl) |-> fl[i].k]

\* for e in fz.infos(): the archive's records whose name is a key of file_list
infos(z, fl) == SelectSeq(z, LAMBDA zip_info : zip_info.filename \in Keys(fl))

Names ==
    /\ pc = "names"
    /\ namesOut' = names(file_list)
    /\ pc' = "infos"
    /\ UNCHANGED <<zip, manifest, args, self, file_list, zip_file, error,
                   infosOut, filesOut, attempts, gen>>

Infos ==
    /\ pc = "infos"
    /\ infosOut' = [i \in 1..Len(infos(zip, file_list)) |-> infos(zip, file_list)[i].filename]
    /\ pc' = "files"
    /\ UNCHANGED <<zip, manifest, args, self, file_list, zip_file, error,
                   namesOut, filesOut, attempts, gen>>

\* files(): the outer loop from the entry after pos to the next entry it opens; 0 at the end
NextEntry(z, fl, pos) ==
    LET S == {i \in (pos + 1)..Len(z) : ~is_dir(z[i]) /\ z[i].filename \in Keys(fl)}
    IN IF S = {} THEN 0 ELSE CHOOSE i \in S : \A j \in S : i <= j

\* TryPasswords without the break: the candidates after the one that opened are tried too
RECURSIVE TryPasswords_NoBreak(_, _, _, _)
TryPasswords_NoBreak(zip_info, passwords, n, log) ==
    IF n > Len(passwords)
    THEN [opened |-> \E i \in 1..Len(log) : log[i].ok, log |-> log]
    ELSE TryPasswords_NoBreak(zip_info, passwords, n + 1,
                              Append(log, [name |-> zip_info.filename, pwd |-> passwords[n],
                                           ok |-> ZipOpen(zip_info, passwords[n])]))

\* files(): the password loop for one entry; gives [opened, log]
RECURSIVE TryPasswords(_, _, _, _)
TryPasswords(zip_info, passwords, n, log) ==
    IF n > Len(passwords) THEN [opened |-> FALSE, log |-> log]
    ELSE LET ok == ZipOpen(zip_info, passwords[n])
             tried == Append(log, [name |-> zip_info.filename, pwd |-> passwords[n], ok |-> ok])
         IN IF ok THEN [opened |-> TRUE, log |-> tried]
            ELSE TryPasswords(zip_info, passwords, n + 1, tried)

\* one next() of the files() generator: runs to its next yield, to its raise or to its end
FilesNext ==
    /\ pc = "files"
    /\ gen.state # "finished"
    /\ LET i == NextEntry(zip, file_list, gen.pos)
       IN IF i = 0
          THEN /\ gen' = [state |-> "finished", pos |-> Len(zip)]
               /\ pc' = "leaving"
               /\ UNCHANGED <<error, filesOut, attempts>>
          ELSE LET t == TryPasswords(zip[i], self.passwords, 1, <<>>)
               IN /\ attempts' = attempts \o t.log
                  /\ IF t.opened
                     THEN /\ filesOut' = Append(filesOut, zip[i].filename)
                          /\ gen' = [state |-> "suspended", pos |-> i]
                          /\ UNCHANGED <<pc, error>>
                     ELSE /\ error' = Raised("Unknown password")
                          /\ gen' = [state |-> "finished", pos |-> i]
                          /\ pc' = "files_raised"
                          /\ UNCHANGED filesOut
    /\ UNCHANGED <<zip, manifest, args, self, file_list, zip_file, namesOut, infosOut>>

\* a caller that caught the error asks the generator for its next item: a generator
\* that raised is finished, next() raises StopIteration and the loop ends
FilesNextAfterRaise ==
    /\ pc = "files_raised"
    /\ gen.state = "finished"
    /\ pc' = "leaving"
    /\ UNCHANGED <<zip, manifest, args, self, file_list, zip_file, error,
                   namesOut, infosOut, filesOut, attempts, gen>>

\* __exit__: the with-block is left, normally or by the error going up
Exit ==
    /\ pc \in {"leaving", "files_raised"}
    /\ zip_file' = IF zip_file = "open" THEN "closed" ELSE zip_file
    /\ pc' = "exited"
    /\ UNCHANGED <<zip, manifest, args, self, file_list, error,
                   namesOut, infosOut, filesOut, attempts, gen>>

Next ==
    \/ Construct
    \/ Enter
    \/ Names
    \/ Infos
    \/ FilesNext
    \/ FilesNextAfterRaise
    \/ Exit

\* ------------------------------------------------------------------ inputs
F1 == <<"a", "b">>
F2 == <<"B", "a">>
D1 == <<"b", "/">>
EntryNames == {F1, F2, D1}
EntryKeys == {NoPassword, "x"}
Candidates == {NoPassword, "w", "x"}
Patterns == {<<"B">>, <<".", "b">>}
ArgTypes == MatchType \cup {"exact"}

SeqsUpTo(S, n) == UNION {[1..k -> S] : k \in 0..n}

Entries ==
    {e \in [filename : EntryNames, key : EntryKeys] : is_dir(e) => e.key = NoPassword}
Infolists ==
    {z \in SeqsUpTo(Entries, MaxEntries) :
        \A i, j \in 1..Len(z) : i # j => z[i].filename # z[j].filename}
ManifestEntry == [filename |-> ManifestName, key |-> NoPassword]

PasswordArgs ==
    {[given |-> FALSE, list |-> <<>>]}
    \cup {[given |-> TRUE, list |-> l] : l \in SeqsUpTo(Candidates, MaxPasswords)}
Args == [type : ArgTypes, pattern : Patterns, match_case : BOOLEAN, passwords : PasswordArgs]

MetaValues == {<<"a", "b">>, <<"c", "\\">>}
Metas ==
    [name : {FileNameKey, FilePathKey}, value : MetaValues] \cup {[name |-> FileNameKey]}
Accepted(rs) == [generator |-> AcceptedGenerator, results |-> rs]
BadResults == {[payload |-> F1], [metadata |-> <<>>]}
RichResults == [payload : EntryNames, metadata : SeqsUpTo(Metas, MaxMeta)] \cup BadResults
PlainMetadata ==
    {<<[name |-> FileNameKey, value |-> <<"a", "b">>],
       [name |-> FilePathKey, value |-> <<"c", "\\">>]>>,
     <<[name |-> FilePathKey, value |-> <<"a", "b">>],
       [name |-> FileNameKey, value |-> <<"c", "\\">>]>>}
PlainResults == [payload : EntryNames, metadata : PlainMetadata] \cup BadResults
PlainAudits ==
    {[results |-> <<>>], [generator |-> "other"], [generator |-> AcceptedGenerator],
     [generator |-> "other", results |-> <<[payload |-> F1]>>]}
    \cup {Accepted(<<r>>) : r \in [payload : {F1}, metadata : PlainMetadata]}
NoDoc == [tool |-> "x"]
\* the manifests: structurally broken ones, one result with every metadata up to
\* MaxMeta, two results, two audits
Docs ==
    {NoDoc, [audits |-> <<>>]}
    \cup {[audits |-> <<Accepted(<<r>>)>>] : r \in RichResults}
    \cup {[audits |-> <<Accepted(<<r1, r2>>)>>] : r1 \in PlainResults, r2 \in PlainResults}
    \cup {[audits |-> <<a>>] : a \in PlainAudits}
    \cup {[audits |-> <<a1, a2>>] : a1 \in PlainAudits, a2 \in PlainAudits}

InitRun ==
    /\ pc = "start"
    /\ self = NoSelf
    /\ file_list = <<>>
    /\ zip_file = "unopened"
    /\ error = NoError
    /\ namesOut = <<>>
    /\ infosOut = <<>>
    /\ filesOut = <<>>
    /\ attempts = <<>>
    /\ gen = [state |-> "fresh", pos |-> 0]

\* extraction: every archive and password list within the bounds, no manifest.json,
\* an unparseable one, or a plain one
Init ==
    /\ args \in Args
    /\ \E z \in Infolists :
          \/ /\ zip = z
             /\ manifest = [kind |-> "absent", j |-> NoDoc]
          \/ /\ zip = Append(z, ManifestEntry)
             /\ manifest \in {[kind |-> "unparseable", j |-> NoDoc]}
                             \cup {[kind |-> "json", j |-> [audits |-> <<a>>]] :
                                      a \in {Accepted(<<r>>) :
                                                r \in [payload : {F1}, metadata : PlainMetadata]}}
    /\ InitRun

\* manifest resolution: every manifest of Docs; archives that hold every entry name,
\* one of them with an encrypted entry, and an archive that lacks a name
InitManifest ==
    /\ args \in {a \in Args : ~a.passwords.given}
    /\ zip \in {<<[filename |-> F1, key |-> NoPassword], [filename |-> F2, key |-> k],
                  [filename |-> D1, key |-> NoPassword], ManifestEntry>> : k \in EntryKeys}
               \cup {<<[filename |-> D1, key |-> NoPassword],
                       [filename |-> F1, key |-> NoPassword], ManifestEntry>>}
    /\ manifest \in [kind : {"json"}, j : Docs]
    /\ InitRun

Spec == Init /\ [][Next]_vars
SpecManifest == InitManifest /\ [][Next]_vars

\* ------------------------------------------------------------------ what the claims speak of
Constructed == pc \notin {"start", "raised"}
Last(s) == s[Len(s)]
Values(ms) == [i \in 1..Len(ms) |-> ms[i].value]
HasNameValue(m) == "name" \in DOMAIN m /\ "value" \in DOMAIN m
\* the values one result's metadata gives for a key, in the order met
ValuesOf(result, key) ==
    Values(SelectSeq(result.metadata, LAMBDA m : HasNameValue(m) /\ m.name = key))
Matching(s, vs) == SelectSeq(vs, LAMBDA v : matcher(s, v))
Logical(filepath, filename) ==
    join(IF \E i \in 1..Len(filepath) : filepath[i] = "\\" THEN "\\" ELSE "/",
         filepath, filename)
\* <<a, r>>: result r of audit a, for the audits of the accepted generator
AcceptedAudits(j) ==
    {a \in 1..Len(j.audits) :
        /\ "generator" \in DOMAIN j.audits[a]
        /\ j.audits[a].generator = AcceptedGenerator
        /\ "results" \in DOMAIN j.audits[a]}
AcceptedResults(j) ==
    UNION {{<<a, r>> : r \in 1..Len(j.audits[a].results)} : a \in AcceptedAudits(j)}
ResultAt(j, x) == j.audits[x[1]].results[x[2]]
ResultsFor(j, p) == {x \in AcceptedResults(j) : ResultAt(j, x).payload = p}
Before(x, y) == x[1] < y[1] \/ (x[1] = y[1] /\ x[2] < y[2])
\* the raw-name match set: the archive's matching non-directory entries, in its order
RawMatches(s, z) ==
    LET hit == SelectSeq(z, LAMBDA e : ~endswith(e.filename, <<"/">>)
                                       /\ matcher(s, e.filename))
    IN [i \in 1..Len(hit) |-> [k |-> hit[i].filename, v |-> hit[i].filename]]

\* ------------------------------------------------------------------ C1
\* C1 (as claimed): with no manifest.json, or with one that is not parseable JSON,
\* construction succeeds and the match set is exactly the non-directory entries
\* whose raw name satisfies the matcher, keyed and valued by the raw name.
C1_ManifestFallback ==
    (pc # "start" /\ args.type \in MatchType /\ manifest.kind \in {"absent", "unparseable"})
    => /\ pc # "raised"
       /\ error = NoError \/ error = Raised("Unknown password")
       /\ file_list = RawMatches(NewSelf(args), zip)

\* ------------------------------------------------------------------ C2
\* a result registers its payload: a FileName value satisfies the matcher and a
\* FilePath is given
Registers(s, result) ==
    /\ Matching(s, ValuesOf(result, FileNameKey)) # <<>>
    /\ ValuesOf(result, FilePathKey) # <<>>

\* C2: under a valid manifest a payload is in the match set, and yielded by names()
\* under its raw name, iff a result of an accepted audit maps it to a logical file
\* name that satisfies the matcher (with a file path), whatever the matcher says of
\* the raw entry name: matched by the logical name only, it is in; matched by the raw
\* name only, it is out.
C2_ManifestPrecedence ==
    (Constructed /\ manifest.kind = "json")
    => \A p \in EntryNames :
          LET logical == \E x \in ResultsFor(manifest.j, p) :
                            Registers(self, ResultAt(manifest.j, x))
          IN /\ (p \in Keys(file_list)) = logical
             /\ pc \notin {"constructed", "names"} => ((p \in Range(namesOut)) = logical)

\* one payload matched by its logical name alone is listed, another matched by its raw
\* name alone is not
C2_Witness ==
    /\ pc = "infos"
    /\ manifest.kind = "json"
    /\ \E p, q \in EntryNames :
          /\ ~matcher(self, p)
          /\ \E x \in ResultsFor(manifest.j, p) : Registers(self, ResultAt(manifest.j, x))
          /\ p \in Range(namesOut)
          /\ matcher(self, q)
          /\ ResultsFor(manifest.j, q) # {}
          /\ q \notin Range(namesOut)

\* ------------------------------------------------------------------ C3
ManifestErrors ==
    {"audits missing from FireEye manifest", "generator missing from audit",
     "results missing from audit", "payload missing from audit result",
     "metadata missing from audit result"}
\* the required-field contract is violated
Malformed(j) ==
    \/ "audits" \notin DOMAIN j
    \/ \E a \in 1..Len(j.audits) :
          \/ "generator" \notin DOMAIN j.audits[a]
          \/ /\ j.audits[a].generator = AcceptedGenerator
             /\ \/ "results" \notin DOMAIN j.audits[a]
                \/ \E r \in 1..Len(j.audits[a].results) :
                      \/ "payload" \notin DOMAIN j.audits[a].results[r]
                      \/ "metadata" \notin DOMAIN j.audits[a].results[r]

\* C3: a parsed manifest that violates the required-field contract makes construction
\* fail with a manifest error (one about a result names that result's index) and
\* nothing is matched by raw name; a manifest that obeys it, audits of another
\* generator lacking results included, raises no manifest error.
C3_ManifestMalformation ==
    (pc # "start" /\ args.type \in MatchType /\ manifest.kind = "json")
    => IF Malformed(manifest.j)
       THEN /\ pc = "raised"
            /\ error.msg \in ManifestErrors
            /\ file_list = <<>> /\ namesOut = <<>> /\ infosOut = <<>> /\ filesOut = <<>>
            /\ error.msg \in {"payload missing from audit result",
                              "metadata missing from audit result"}
               => \E x \in AcceptedResults(manifest.j) :
                     /\ x[2] = error.index + 1
                     /\ (IF error.msg = "payload missing from audit result"
                         THEN "payload" ELSE "metadata") \notin DOMAIN ResultAt(manifest.j, x)
       ELSE /\ pc # "raised"
            /\ error.msg \notin ManifestErrors

\* an audit of another generator that lacks results was passed over, and the accepted
\* audit after it, lacking results, failed construction
C3_Witness ==
    /\ pc = "raised"
    /\ manifest.kind = "json"
    /\ "audits" \in DOMAIN manifest.j
    /\ Len(manifest.j.audits) = 2
    /\ manifest.j.audits[1] = [generator |-> "other"]
    /\ manifest.j.audits[2] = [generator |-> AcceptedGenerator]
    /\ error = Raised("results missing from audit")

\* ------------------------------------------------------------------ C4
\* C4 (as claimed): no directory entry is ever produced by names(), infos() or
\* files(), whatever the archive, the pattern and the manifest.
C4_NoDirectories ==
    \A n \in Range(namesOut) \cup Range(infosOut) \cup Range(filesOut) :
        ~endswith(n, <<"/">>)

\* ------------------------------------------------------------------ C5
\* the entries files() has dealt with so far: the matched non-directory entries up to
\* the generator's position
Handled ==
    {i \in 1..gen.pos : ~endswith(zip[i].filename, <<"/">>)
                        /\ zip[i].filename \in Keys(file_list)}
AttemptsOn(name) == SelectSeq(attempts, LAMBDA a : a.name = name)
Opening(i) == {n \in 1..Len(self.passwords) : ZipOpen(zip[i], self.passwords[n])}

\* C5: for every matched entry files() has dealt with, the opens made on it are the
\* candidates of the normalised list in list order, up to and including the first one
\* that opens it and none after; the entry's stream is yielded iff some candidate opens
\* it; if none does, all were tried and files() raised 'Unknown password' at that
\* entry. No other entry is ever opened.
C5_PasswordRetry ==
    Constructed
    => /\ \A i \in Handled :
             LET tried == AttemptsOn(zip[i].filename)
                 first == IF Opening(i) = {} THEN Len(self.passwords)
                          ELSE CHOOSE n \in Opening(i) : \A m \in Opening(i) : n <= m
             IN /\ Len(tried) = first
                /\ \A n \in 1..first : /\ tried[n].pwd = self.passwords[n]
                                       /\ tried[n].ok = (n \in Opening(i))
                /\ (zip[i].filename \in Range(filesOut)) = (Opening(i) # {})
                /\ Opening(i) = {} => /\ error = Raised("Unknown password")
                                      /\ gen = [state |-> "finished", pos |-> i]
       /\ \A a \in Range(attempts) : \E i \in Handled : zip[i].filename = a.name

\* an entry encrypted with "x" was opened at the third attempt, after no password and
\* the wrong password "w" had failed, and its stream was yielded
C5_Witness ==
    \E i \in Handled :
        /\ zip[i].key = "x"
        /\ AttemptsOn(zip[i].filename) =
              <<[name |-> zip[i].filename, pwd |-> NoPassword, ok |-> FALSE],
                [name |-> zip[i].filename, pwd |-> "w", ok |-> FALSE],
                [name |-> zip[i].filename, pwd |-> "x", ok |-> TRUE]>>
        /\ zip[i].filename \in Range(filesOut)

\* ------------------------------------------------------------------ C6
\* C6 (as claimed): whatever password list the caller supplies, the engine's list
\* holds the no-password candidate and that candidate is the first one attempted on
\* every entry files() opens.
C6_NoPasswordFirst ==
    Constructed
    => /\ NoPassword \in Range(self.passwords)
       /\ \A i \in Handled : AttemptsOn(zip[i].filename)[1].pwd = NoPassword

\* ------------------------------------------------------------------ C7
\* C7 (as claimed): names(), infos() and files() produce the same sequence of entry
\* names, the archive's own order (when every entry opens). Stated for the runs in
\* which every name listed is a non-directory entry of the archive, so that what is
\* left to differ is the order alone.
C7_ArchiveOrder ==
    (/\ pc = "exited"
     /\ error = NoError
     /\ \A n \in Range(namesOut) : n \in namelist(zip) /\ ~endswith(n, <<"/">>))
    => /\ namesOut = infosOut
       /\ namesOut = filesOut

\* ------------------------------------------------------------------ C8
\* C8 (as claimed): once opened, the archive handle is closed on every exit path;
\* no execution ends with the handle still open.
C8_HandleClosed ==
    pc \in {"raised", "exited"} => zip_file # "open"

\* ------------------------------------------------------------------ C9
\* C9 (as claimed): when one matched entry opens with no candidate, a caller that
\* catches the error still obtains from the iteration the streams of the other
\* matched entries, and the listing is as it was.
C9_ErrorConfined ==
    pc = "leaving"
    => /\ \A i \in 1..Len(zip) :
             (/\ ~endswith(zip[i].filename, <<"/">>)
              /\ zip[i].filename \in Keys(file_list)
              /\ \E pwd \in Range(self.passwords) : ZipOpen(zip[i], pwd))
             => zip[i].filename \in Range(filesOut)
       /\ namesOut = names(file_list)

\* ------------------------------------------------------------------ C10
\* the accepted results that name payload p and register it
Registering(s, j, p) == {x \in ResultsFor(j, p) : Registers(s, ResultAt(j, x))}
LastOf(X) == CHOOSE x \in X : \A y \in X : y = x \/ Before(y, x)

\* C10 (as claimed): a result is in the match set iff the last FileName value of its
\* metadata satisfies the matcher and a FilePath was found, and its logical name is
\* the last FilePath joined with the last FileName. Stated for the payloads one
\* result names.
C10_LastFileNameWins ==
    (Constructed /\ manifest.kind = "json")
    => \A p \in EntryNames : \A x \in ResultsFor(manifest.j, p) :
          ResultsFor(manifest.j, p) = {x}
          => LET result == ResultAt(manifest.j, x)
                 filenames == ValuesOf(result, FileNameKey)
                 filepaths == ValuesOf(result, FilePathKey)
                 found == /\ filenames # <<>>
                          /\ matcher(self, Last(filenames))
                          /\ filepaths # <<>>
             IN /\ (p \in Keys(file_list)) = found
                /\ found => file_list[Get(file_list, p)].v
                            = Logical(Last(filepaths), Last(filenames))

\* C10 (amended): a result registers its payload iff some FileName value of its
\* metadata satisfies the matcher and a FilePath was found; its logical name is the
\* last FilePath joined with the last FileName value that satisfies the matcher, by a
\* backslash if the path holds one and by a slash otherwise. A payload is in the
\* match set iff a result registers it, under the logical name of the last such result.
C10_LastMatchingFileNameWins ==
    (Constructed /\ manifest.kind = "json")
    => \A p \in EntryNames :
          LET X == Registering(self, manifest.j, p)
          IN /\ (p \in Keys(file_list)) = (X # {})
             /\ X # {}
                => LET result == ResultAt(manifest.j, LastOf(X))
                   IN file_list[Get(file_list, p)].v
                      = Logical(Last(ValuesOf(result, FilePathKey)),
                                Last(Matching(self, ValuesOf(result, FileNameKey))))

\* a result whose last FileName does not satisfy the matcher while an earlier one
\* does, and which gives two FilePaths, is in the match set
C10_Witness ==
    /\ Constructed
    /\ manifest.kind = "json"
    /\ \E p \in EntryNames : \E x \in ResultsFor(manifest.j, p) :
          LET result == ResultAt(manifest.j, x)
              filenames == ValuesOf(result, FileNameKey)
          IN /\ Len(filenames) = 2
             /\ matcher(self, filenames[1])
             /\ ~matcher(self, filenames[2])
             /\ ValuesOf(result, FilePathKey) # <<>>
             /\ p \in Keys(file_list)
====
